---------------------------- MODULE Spec2Model ----------------------------
(***************************************************************************)
(* burnout-meter: the meter renderer (three copies of create_meter: the    *)
(* Builder's in src/meter.rs, the free function in src/util.rs and the     *)
(* binary's own in src/main.rs) and the meter::Builder that caches a       *)
(* rendered meter; days_since_monday and the two runs that fetch the       *)
(* hours, render the meter and update the profile (App::run in src/app.rs, *)
(* main and run in src/main.rs).                                           *)
(*                                                                         *)
(* Numbers.  The code computes in f64.  The model measures hours in        *)
(* 1/Unit hour steps (Unit = 4: quarter hours), so every modelled          *)
(* measurement is a dyadic rational that f64 represents exactly, and it    *)
(* computes with exact integer arithmetic.  On the modelled inputs         *)
(* (Currents x Maxes x Lengths, and the pair grid) the f64 results of      *)
(* current.floor(), current - hours, the comparison of current / max with  *)
(* 0.45, 0.7 and 0.94, and (percentage * length).floor() as u8 are equal   *)
(* to the exact ones; an input such as 9.4 (not a dyadic rational: the     *)
(* f64 nearest to it divided by 10 is above the f64 nearest to 0.94) is    *)
(* outside the grid.                                                       *)
(***************************************************************************)
EXTENDS Integers, Sequences, FiniteSets

VARIABLES
    pc,           \* render check: "call" before create_meter is called, "done" after
    callee,       \* which copy of create_meter was called
    arg_current,  \* create_meter's arguments
    arg_max,
    arg_length,
    result,       \* what the call returned
    current,      \* meter::Builder's fields
    max,
    length,
    meter,
    called,       \* the Builder method called last
    returned,     \* what it returned: "self", or build()'s "Ok" or "Err"
    pair,         \* two measurements rendered with one max and one length
    pair_result,
    program,      \* the run: App::run of app.rs ("app.rs") or main of main.rs ("main.rs")
    step,         \* where the run is: "start", "fetching", "updating", "done"
    settings,     \* AppSettings: burnout_limit, meter_length
    clock,        \* the system clock (UTC weekday and hour) and the system's time zone
    days,         \* the days the time-tracking request looks back
    fetched,      \* what the time-tracking call returned
    events,       \* the run's steps so far: "fetch", "build", "submit"
    confirmed,    \* what the profile-update call returned
    printed,      \* the lines printed so far
    outcome       \* "running", or how the run ended: "ok", "err", "panic"

renderVars == <<pc, callee, arg_current, arg_max, arg_length, result>>
builderVars == <<current, max, length, meter, called, returned>>
pairVars == <<pair, pair_result>>
appVars == <<program, step, settings, clock, days, fetched, events, confirmed, printed, outcome>>
vars == <<renderVars, builderVars, pairVars, appVars>>

-----------------------------------------------------------------------------
(* Bounds of the model and the values it draws inputs from. *)

\* hours are counted in steps of 1/Unit hour
Unit == 4
\* measurements run from -MinHours to MaxHours hours
MinHours == 2
MaxHours == 180
\* lengths 0..MaxLength, besides 20 and 255
MaxLength == 12
\* the pair grid: measurements from -PairMinHours to PairMaxHours hours
PairMinHours == 2
PairMaxHours == 14

U8Max == 255

Hours(h) == h * Unit

\* Option<f64>: None, Some(v)
None == << >>
Some(v) == <<v>>

Currents == {None} \cup {Some(c) : c \in Hours(-MinHours)..Hours(MaxHours)}
\* 10 (the tests), 50 (app.rs), 160 (meter.rs), 170 (main.rs); 0 and -10 are
\* the values a valid configuration excludes
Maxes == {Hours(-10), Hours(0), Hours(10), Hours(50), Hours(160), Hours(170)}
Lengths == (0..MaxLength) \cup {20, U8Max}

-----------------------------------------------------------------------------
(* Results: Result<String, Box<dyn Error>>, or a panic. *)

TIER_LOW == "green"
TIER_MID == "yellow"
TIER_HIGH == "orange"
TIER_CRITICAL == "red"
BLANK == "blank"

NoCurrentValue == "No current value"
SubtractOverflow == "attempt to subtract with overflow"

Ok(m) == [kind |-> "Ok", meter |-> m, err |-> ""]
Err(e) == [kind |-> "Err", meter |-> << >>, err |-> e]
Panic(e) == [kind |-> "Panic", meter |-> << >>, err |-> e]
NoResult == [kind |-> "None", meter |-> << >>, err |-> ""]

\* str::repeat
Repeat(glyph, n) == [i \in 1..n |-> glyph]

-----------------------------------------------------------------------------
(* The arithmetic of create_meter. *)

\* floor(n / d), d # 0
FloorDiv(n, d) == IF d > 0 THEN n \div d ELSE (-n) \div (-d)

\* f64 as u8: saturating
SaturateU8(x) == IF x < 0 THEN 0 ELSE IF x > U8Max THEN U8Max ELSE x

\* f64 as u8 as a cast that keeps the low eight bits would do
WrapU8(x) == x % (U8Max + 1)

\* current - current.floor() > 0.5
RemainderAboveHalf(c) == 2 * (c % Unit) > Unit

\* percentage > num / den, where percentage = current / max: max = 0 gives
\* +inf (current > 0), -inf (current < 0) or NaN (current = 0)
PercentageAbove(c, m, num, den) ==
    IF m > 0 THEN c * den > num * m
    ELSE IF m < 0 THEN c * den < num * m
    ELSE c > 0

\* percentage >= num / den
PercentageAtLeast(c, m, num, den) ==
    IF m > 0 THEN c * den >= num * m
    ELSE IF m < 0 THEN c * den <= num * m
    ELSE c > 0

\* (percentage * length as f64).floor(), before the cast: an integer, or for
\* max = 0 the infinities and NaN, which the cast takes to 255, 0 and 0
FloorCellsWrapped(c, m, len) ==
    IF m = 0 THEN (IF c > 0 /\ len > 0 THEN U8Max ELSE 0)
    ELSE WrapU8(FloorDiv(c * len, m))

\* let mut filled = (percentage * length as f64).floor() as u8;
FloorCells(c, m, len) ==
    IF m = 0 THEN (IF c > 0 /\ len > 0 THEN U8Max ELSE 0)
    ELSE SaturateU8(FloorDiv(c * len, m))

RoundsUpInverted(c, len, filled) ==
    ~RemainderAboveHalf(c) /\ len >= 10 /\ filled < len

RoundsUpUngated(c, len, filled) ==
    RemainderAboveHalf(c) /\ filled < len

\* if remainder > 0.5 && length >= 10 && filled < length
RoundsUp(c, len, filled) ==
    RemainderAboveHalf(c) /\ len >= 10 /\ filled < len

SelectEmojiInclusive(c, m) ==
    IF PercentageAtLeast(c, m, 94, 100) THEN TIER_CRITICAL
    ELSE IF PercentageAtLeast(c, m, 7, 10) THEN TIER_HIGH
    ELSE IF PercentageAtLeast(c, m, 45, 100) THEN TIER_MID
    ELSE TIER_LOW

SelectEmojiEarlyRed(c, m) ==
    IF PercentageAbove(c, m, 9, 10) THEN TIER_CRITICAL
    ELSE IF PercentageAbove(c, m, 7, 10) THEN TIER_HIGH
    ELSE IF PercentageAbove(c, m, 45, 100) THEN TIER_MID
    ELSE TIER_LOW

\* emoji starts green and is overwritten by each later `if` that holds
SelectEmoji(c, m) ==
    LET e0 == TIER_LOW
        e1 == IF PercentageAbove(c, m, 45, 100) THEN TIER_MID ELSE e0
        e2 == IF PercentageAbove(c, m, 7, 10) THEN TIER_HIGH ELSE e1
        e3 == IF PercentageAbove(c, m, 94, 100) THEN TIER_CRITICAL ELSE e2
    IN  e3

\* filled after the rounding step
FilledRounded(c, m, len) ==
    LET filled == FloorCells(c, m, len)
    IN  IF RoundsUp(c, len, filled) THEN filled + 1 ELSE filled

-----------------------------------------------------------------------------
(* The three copies of create_meter. *)

\* meter.rs, Builder::create_meter
Builder_create_meter(cur, m, len) ==
    IF cur = None THEN Err(NoCurrentValue)
    ELSE LET c == cur[1]
             rounded == FilledRounded(c, m, len)
             filled == IF rounded > len THEN len ELSE rounded
             empty == len - filled
         IN  Ok(Repeat(SelectEmoji(c, m), filled) \o Repeat(BLANK, empty))

\* util.rs, create_meter
util_create_meter(cur, m, len) ==
    IF cur = None THEN Err(NoCurrentValue)
    ELSE LET c == cur[1]
             rounded == FilledRounded(c, m, len)
             filled == IF rounded > len THEN len ELSE rounded
             empty == len - filled
         IN  Ok(Repeat(SelectEmoji(c, m), filled) \o Repeat(BLANK, empty))

\* main.rs, create_meter: no measurement renders all blank, and filled is not
\* clamped, so `length - filled` (u8) overflows when filled > length: a panic
\* in a build with overflow checks, a wrapped difference in one without
main_create_meter(cur, m, len, overflow_checks) ==
    IF cur = None THEN Ok(Repeat(BLANK, len))
    ELSE LET c == cur[1]
             filled == FilledRounded(c, m, len)
             empty == WrapU8(len - filled)
         IN  IF filled > len /\ overflow_checks
             THEN Panic(SubtractOverflow)
             ELSE Ok(Repeat(SelectEmoji(c, m), filled) \o Repeat(BLANK, empty))

-----------------------------------------------------------------------------
(* Reading a rendered meter. *)

FilledCells(m) == Cardinality({i \in DOMAIN m : m[i] # BLANK})
BlankCells(m) == Cardinality({i \in DOMAIN m : m[i] = BLANK})

-----------------------------------------------------------------------------
(* Rendering one meter: the arguments are drawn at the start, then one of   *)
(* the three copies of create_meter is called on them.                      *)

BuilderIdle ==
    /\ current = None
    /\ max = 0
    /\ length = 0
    /\ meter = << >>
    /\ called = "none"
    /\ returned = "none"

PairIdle ==
    /\ pair = << >>
    /\ pair_result = << >>

AppIdle ==
    /\ program = "none"
    /\ step = "idle"
    /\ settings = << >>
    /\ clock = << >>
    /\ days = 0
    /\ fetched = << >>
    /\ events = << >>
    /\ confirmed = << >>
    /\ printed = << >>
    /\ outcome = "none"

RenderIdle ==
    /\ pc = "idle"
    /\ callee = "none"
    /\ arg_current = None
    /\ arg_max = 0
    /\ arg_length = 0
    /\ result = NoResult

Init ==
    /\ pc = "call"
    /\ callee = "none"
    /\ arg_current \in Currents
    /\ arg_max \in Maxes
    /\ arg_length \in Lengths
    /\ result = NoResult
    /\ BuilderIdle
    /\ PairIdle
    /\ AppIdle

CallBuilderCreateMeter ==
    /\ pc = "call"
    /\ result' = Builder_create_meter(arg_current, arg_max, arg_length)
    /\ callee' = "meter.rs"
    /\ pc' = "done"
    /\ UNCHANGED <<arg_current, arg_max, arg_length, builderVars, pairVars, appVars>>

CallUtilCreateMeter ==
    /\ pc = "call"
    /\ result' = util_create_meter(arg_current, arg_max, arg_length)
    /\ callee' = "util.rs"
    /\ pc' = "done"
    /\ UNCHANGED <<arg_current, arg_max, arg_length, builderVars, pairVars, appVars>>

CallMainCreateMeter ==
    /\ pc = "call"
    /\ \E overflow_checks \in BOOLEAN :
          result' = main_create_meter(arg_current, arg_max, arg_length, overflow_checks)
    /\ callee' = "main.rs"
    /\ pc' = "done"
    /\ UNCHANGED <<arg_current, arg_max, arg_length, builderVars, pairVars, appVars>>

Next ==
    \/ CallBuilderCreateMeter
    \/ CallUtilCreateMeter
    \/ CallMainCreateMeter

Spec == Init /\ [][Next]_vars

-----------------------------------------------------------------------------
(* Rendering two measurements with one max and one length. *)

PairCurrents == Hours(-PairMinHours)..Hours(PairMaxHours)
PairMaxes == {Hours(1), Hours(10), Hours(170)}
PairLengths == {1, 5, 10, 20}

InitPair ==
    /\ RenderIdle
    /\ BuilderIdle
    /\ AppIdle
    /\ \E c1 \in PairCurrents, c2 \in PairCurrents, m \in PairMaxes, len \in PairLengths :
          pair = [c1 |-> c1, c2 |-> c2, max |-> m, length |-> len]
    /\ pair_result = << >>

RenderPair ==
    /\ pair_result = << >>
    /\ pair_result' = << Builder_create_meter(Some(pair.c1), pair.max, pair.length),
                         Builder_create_meter(Some(pair.c2), pair.max, pair.length) >>
    /\ UNCHANGED <<pair, renderVars, builderVars, appVars>>

NextPair == RenderPair

SpecPair == InitPair /\ [][NextPair]_vars

-----------------------------------------------------------------------------
(* meter::Builder. *)

\* BURNOUT_LIMIT and METER_LENGTH as the environment may set them (None: unset)
EnvLimits == {None, Some(Hours(10)), Some(Hours(0))}
EnvLengths == {None, Some(10), Some(0)}

\* what the setters are called with
SetCurrents == {0, Hours(1), Hours(5) + Unit \div 2, Hours(6) - 1, Hours(7) + 1,
                Hours(9) + Unit \div 2, Hours(12), -1}
SetMaxes == {Hours(0), Hours(10), Hours(160)}
SetLengths == {0, 5, 8, 10, 20}

DefaultLimit == 160
DefaultLength == 8

\* Option::unwrap_or
UnwrapOr(opt, default) == IF opt = None THEN default ELSE opt[1]

\* Builder::new: the meter of Some(0); create_meter's Err would panic
Builder_new(env_limit, env_length) ==
    LET cur == Some(0)
        m == UnwrapOr(env_limit, Hours(DefaultLimit))
        len == UnwrapOr(env_length, DefaultLength)
        r == Builder_create_meter(cur, m, len)
    IN  [current |-> cur, max |-> m, length |-> len, meter |-> r.meter,
         panicked |-> r.kind # "Ok"]

InitBuilder ==
    /\ RenderIdle
    /\ PairIdle
    /\ AppIdle
    /\ \E env_limit \in EnvLimits, env_length \in EnvLengths :
          LET b == Builder_new(env_limit, env_length)
          IN  /\ ~b.panicked
              /\ current = b.current
              /\ max = b.max
              /\ length = b.length
              /\ meter = b.meter
    /\ called = "new"
    /\ returned = "self"

set_current(v) ==
    /\ current' = Some(v)
    /\ called' = "set_current"
    /\ returned' = "self"
    /\ UNCHANGED <<max, length, meter, renderVars, pairVars, appVars>>

set_max(v) ==
    /\ max' = v
    /\ called' = "set_max"
    /\ returned' = "self"
    /\ UNCHANGED <<current, length, meter, renderVars, pairVars, appVars>>

\* a set_length that renders again at once
set_length_rendering(v) ==
    /\ length' = v
    /\ meter' = Builder_create_meter(current, max, v).meter
    /\ called' = "set_length"
    /\ returned' = "self"
    /\ UNCHANGED <<current, max, renderVars, pairVars, appVars>>

set_length(v) ==
    /\ length' = v
    /\ called' = "set_length"
    /\ returned' = "self"
    /\ UNCHANGED <<current, max, meter, renderVars, pairVars, appVars>>

\* a build that never stores what it rendered
build_discarding ==
    LET r == Builder_create_meter(current, max, length)
    IN  /\ returned' = r.kind
        /\ called' = "build"
        /\ UNCHANGED <<current, max, length, meter, renderVars, pairVars, appVars>>

\* self.meter = Self::create_meter(...)?; Ok(self)
build ==
    LET r == Builder_create_meter(current, max, length)
    IN  /\ meter' = IF r.kind = "Ok" THEN r.meter ELSE meter
        /\ returned' = r.kind
        /\ called' = "build"
        /\ UNCHANGED <<current, max, length, renderVars, pairVars, appVars>>

NextBuilder ==
    \/ \E v \in SetCurrents : set_current(v)
    \/ \E v \in SetMaxes : set_max(v)
    \/ \E v \in SetLengths : set_length(v)
    \/ build

SpecBuilder == InitBuilder /\ [][NextBuilder]_vars

\* Display for Builder
Display == meter

-----------------------------------------------------------------------------
(* days_since_monday (app.rs, inside App::run). *)

\* the system's time zone lies MaxZoneWest hours behind to MaxZoneEast hours
\* ahead of UTC
MaxZoneWest == 12
MaxZoneEast == 14
\* the TIMEZONE_OFFSET setting runs from -MaxOffsetHours to MaxOffsetHours
MaxOffsetHours == 23

\* chrono::Weekday
Weekdays == <<"Mon", "Tue", "Wed", "Thu", "Fri", "Sat", "Sun">>

\* the weekday of the time `offset` hours from the UTC time of clock clk
ShiftedWeekday(clk, offset) ==
    Weekdays[((clk.weekday - 1 + ((clk.hour + offset) \div 24)) % 7) + 1]

\* chrono::offset::Local::now().date_naive().weekday(): the date of the system's
\* local time, which is UTC shifted by the system's time zone
LocalWeekday(clk) == ShiftedWeekday(clk, clk.zone)

days_since_monday_from_zero(today) ==
    CASE today = "Mon" -> 0
      [] today = "Tue" -> 1
      [] today = "Wed" -> 2
      [] today = "Thu" -> 3
      [] today = "Fri" -> 4
      [] today = "Sat" -> 5
      [] today = "Sun" -> 6

\* match today { Mon => 1, ..., Sun => 7 }
days_since_monday(today) ==
    CASE today = "Mon" -> 1
      [] today = "Tue" -> 2
      [] today = "Wed" -> 3
      [] today = "Thu" -> 4
      [] today = "Fri" -> 5
      [] today = "Sat" -> 6
      [] today = "Sun" -> 7

Clocks == [weekday : 1..7, hour : 0..23, zone : -MaxZoneWest..MaxZoneEast]

\* TIMEZONE_OFFSET as the environment may hold it; no code reads it
EnvOffsets == {-MaxOffsetHours, 0, MaxOffsetHours}

InitWindow ==
    /\ RenderIdle
    /\ BuilderIdle
    /\ PairIdle
    /\ program = "app.rs"
    /\ step = "start"
    /\ clock \in Clocks
    /\ settings \in [env_timezone_offset : EnvOffsets]
    /\ days = 0
    /\ fetched = << >>
    /\ events = << >>
    /\ confirmed = << >>
    /\ printed = << >>
    /\ outcome = "running"

\* let days_since_monday = days_since_monday();
CallDaysSinceMonday ==
    /\ step = "start"
    /\ days' = days_since_monday(LocalWeekday(clock))
    /\ step' = "done"
    /\ UNCHANGED <<program, settings, clock, fetched, events, confirmed, printed, outcome,
                   renderVars, builderVars, pairVars>>

NextWindow == CallDaysSinceMonday

SpecWindow == InitWindow /\ [][NextWindow]_vars

-----------------------------------------------------------------------------
(* The two runs: App::run (app.rs), and main with run (main.rs). *)

\* what WakaTime's get_time_last_n_days may return: Err, Ok(None), Ok(Some(hours))
FetchedHours == {0, Hours(12), Hours(155), Hours(200)}
FetchResults ==
    {[kind |-> "Err", hours |-> None]}
        \cup {[kind |-> "Ok", hours |-> h] : h \in {None} \cup {Some(c) : c \in FetchedHours}}

\* what the profile update may return: Err (the request failed), a body that
\* does not parse, Ok(Update { location: None }), Ok(Update { location: Some(..) })
UpdateResults ==
    {[kind |-> "Err", location |-> None], [kind |-> "Unparsable", location |-> None],
     [kind |-> "Ok", location |-> None], [kind |-> "Ok", location |-> Some("location")]}

\* AppSettings: BURNOUT_LIMIT (default 50.0) and METER_LENGTH (default 8)
AppSettings == [burnout_limit : {Hours(50), Hours(10)}, meter_length : {8, 10}]

\* the days main.rs's run looks back, and the meter it renders
MainDays == 30
MainLimit == 170
MainLength == 8

\* the run's clock: noon UTC of each weekday, in a zone on UTC
AppClocks == [weekday : 1..7, hour : {12}, zone : {0}]

InitApp ==
    /\ RenderIdle
    /\ PairIdle
    /\ program \in {"app.rs", "main.rs"}
    /\ step = "start"
    /\ clock \in AppClocks
    /\ days = 0
    /\ fetched = << >>
    /\ events = << >>
    /\ confirmed = << >>
    /\ printed = << >>
    /\ outcome = "running"
    /\ \/ /\ program = "app.rs"
          /\ settings \in AppSettings
          /\ LET b == Builder_new(None, None)
             IN  /\ current = b.current
                 /\ max = b.max
                 /\ length = b.length
                 /\ meter = b.meter
          /\ called = "new"
          /\ returned = "self"
       \/ /\ program = "main.rs"
          /\ settings = << >>
          /\ BuilderIdle

\* App::run up to the first await: days_since_monday(), then the request
AppStart ==
    /\ program = "app.rs"
    /\ step = "start"
    /\ days' = days_since_monday(LocalWeekday(clock))
    /\ events' = Append(events, "fetch")
    /\ step' = "fetching"
    /\ UNCHANGED <<program, settings, clock, fetched, confirmed, printed, outcome,
                   renderVars, builderVars, pairVars>>

\* App::run from the fetch's answer to the second await: a panic on Err and on
\* Ok(None); else set_max, set_length, set_current, build()?, and the request
\* that updates the location
AppFetchReturns(r) ==
    /\ program = "app.rs"
    /\ step = "fetching"
    /\ fetched' = r
    /\ IF r.kind = "Err" \/ r.hours = None
       THEN /\ outcome' = "panic"
            /\ step' = "done"
            /\ UNCHANGED <<events, builderVars>>
       ELSE LET b == Builder_create_meter(r.hours, settings.burnout_limit,
                                          settings.meter_length)
            IN  /\ max' = settings.burnout_limit
                /\ length' = settings.meter_length
                /\ current' = r.hours
                /\ called' = "build"
                /\ returned' = b.kind
                /\ IF b.kind = "Ok"
                   THEN /\ meter' = b.meter
                        /\ events' = events \o <<"build", "submit">>
                        /\ step' = "updating"
                        /\ outcome' = outcome
                   ELSE /\ meter' = meter
                        /\ events' = Append(events, "build")
                        /\ step' = "done"
                        /\ outcome' = "err"
    /\ UNCHANGED <<program, settings, clock, days, confirmed, printed, renderVars, pairVars>>

\* App::run from the update's answer on: `?` on Err, a panic on location None,
\* else the four lines and Ok(())
AppUpdateReturns(u) ==
    /\ program = "app.rs"
    /\ step = "updating"
    /\ confirmed' = u
    /\ step' = "done"
    /\ IF u.kind # "Ok"
       THEN outcome' = "err" /\ printed' = printed
       ELSE IF u.location = None
       THEN outcome' = "panic" /\ printed' = printed
       ELSE /\ outcome' = "ok"
            /\ printed' = printed \o <<"Location updated to", "hours in the last 30 days",
                                       "Hours til burnout", "Generated Meter">>
    /\ UNCHANGED <<program, settings, clock, days, fetched, events,
                   renderVars, builderVars, pairVars>>

\* main.rs's run up to the first await: get_time_last_n_days(30, None)
MainStart ==
    /\ program = "main.rs"
    /\ step = "start"
    /\ days' = MainDays
    /\ events' = Append(events, "fetch")
    /\ step' = "fetching"
    /\ UNCHANGED <<program, settings, clock, fetched, confirmed, printed, outcome,
                   renderVars, builderVars, pairVars>>

\* main.rs's run from the fetch's answer to the second await: `?` on Err, then
\* create_meter(hours, 170f64, 8)? on what came, None included, and the request
\* that updates the location
MainFetchReturns(r, overflow_checks) ==
    /\ program = "main.rs"
    /\ step = "fetching"
    /\ fetched' = r
    /\ IF r.kind = "Err"
       THEN /\ outcome' = "err"
            /\ step' = "done"
            /\ UNCHANGED <<events, meter>>
       ELSE LET m == main_create_meter(r.hours, Hours(MainLimit), MainLength, overflow_checks)
            IN  IF m.kind = "Ok"
                THEN /\ meter' = m.meter
                     /\ events' = events \o <<"build", "submit">>
                     /\ step' = "updating"
                     /\ outcome' = outcome
                ELSE /\ meter' = meter
                     /\ events' = Append(events, "build")
                     /\ step' = "done"
                     /\ outcome' = "panic"
    /\ UNCHANGED <<program, settings, clock, days, confirmed, printed,
                   current, max, length, called, returned, renderVars, pairVars>>

\* main.rs from the update's answer on: `?` on Err and assert!(result.is_ok())
\* on a body that does not parse; else main prints the location or "Failed to
\* update location", then the three lines, and returns Ok(())
MainUpdateReturns(u) ==
    /\ program = "main.rs"
    /\ step = "updating"
    /\ confirmed' = u
    /\ step' = "done"
    /\ IF u.kind = "Err"
       THEN outcome' = "err" /\ printed' = printed
       ELSE IF u.kind = "Unparsable"
       THEN outcome' = "panic" /\ printed' = printed
       ELSE /\ outcome' = "ok"
            /\ printed' = printed \o
                 << IF u.location # None THEN "Updated location to"
                                         ELSE "Failed to update location",
                    "hours in the last 30 days", "hours to burnout", "Meter" >>
    /\ UNCHANGED <<program, settings, clock, days, fetched, events,
                   renderVars, builderVars, pairVars>>

NextApp ==
    \/ AppStart
    \/ \E r \in FetchResults : AppFetchReturns(r)
    \/ \E u \in UpdateResults : AppUpdateReturns(u)
    \/ MainStart
    \/ \E r \in FetchResults, overflow_checks \in BOOLEAN : MainFetchReturns(r, overflow_checks)
    \/ \E u \in UpdateResults : MainUpdateReturns(u)

SpecApp == InitApp /\ [][NextApp]_vars

-----------------------------------------------------------------------------
(* The claims about create_meter (specification Spec). *)

Rendered == pc = "done"
HasMeasurement == arg_current # None
Measurement == arg_current[1]
ValidConfiguration == arg_max > 0 /\ arg_length >= 1

\* C1: for every measurement c (below 0 and above the maximum included), every
\* maximum > 0 and every length >= 1, create_meter succeeds and its output has
\* exactly length cells, filled plus blank.
C1_RenderHasLengthCells ==
    (Rendered /\ HasMeasurement /\ ValidConfiguration)
        => /\ result.kind = "Ok"
           /\ Len(result.meter) = arg_length
           /\ FilledCells(result.meter) + BlankCells(result.meter) = arg_length

\* What C1 states holds of the two copies that clamp filled (meter.rs, util.rs).
C1_ClampedCopiesHaveLengthCells ==
    (Rendered /\ HasMeasurement /\ ValidConfiguration /\ callee # "main.rs")
        => /\ result.kind = "Ok"
           /\ Len(result.meter) = arg_length

\* C2: create_meter called with no measurement fails with the missing-measurement
\* error ("No current value") and returns no meter, not an all-blank one either;
\* stated here for the maximums > 0 and lengths >= 1, where nothing else is
\* wrong with the call.
C2_NoMeasurementFails ==
    (Rendered /\ ~HasMeasurement /\ ValidConfiguration)
        => /\ result.kind = "Err"
           /\ result.err = NoCurrentValue

\* C3: create_meter with maximum <= 0 fails (an error, no rendered meter);
\* stated here for the calls with a measurement and a length >= 1, where
\* nothing else is wrong with the call.
C3_NonPositiveMaxFails ==
    (Rendered /\ HasMeasurement /\ arg_length >= 1 /\ arg_max <= 0)
        => result.kind = "Err"

\* C4: create_meter with length = 0 fails (an error, not an empty string);
\* stated here for the calls with a measurement and a maximum > 0, where
\* nothing else is wrong with the call.
C4_ZeroLengthFails ==
    (Rendered /\ HasMeasurement /\ arg_max > 0 /\ arg_length = 0)
        => result.kind = "Err"

\* current / max <= num / den, max # 0
RatioAtMost(c, m, num, den) ==
    IF m > 0 THEN c * den <= num * m ELSE c * den >= num * m

\* The tier of percentage = current / max as four bands.
TierOfPercentage(c, m) ==
    CASE RatioAtMost(c, m, 45, 100) -> TIER_LOW
      [] ~RatioAtMost(c, m, 45, 100) /\ RatioAtMost(c, m, 70, 100) -> TIER_MID
      [] ~RatioAtMost(c, m, 70, 100) /\ RatioAtMost(c, m, 94, 100) -> TIER_HIGH
      [] ~RatioAtMost(c, m, 94, 100) -> TIER_CRITICAL

FloorValue(c, m, len) == (c * len) \div m

\* x limited to lo..hi
Limited(x, lo, hi) == IF x < lo THEN lo ELSE IF x > hi THEN hi ELSE x

FractionAboveHalf(c) == 2 * (c - Unit * (c \div Unit)) > Unit

C8_ScenarioIsCritical ==
    (Rendered /\ arg_current = Some(Hours(155)) /\ arg_max = Hours(170) /\ arg_length = 8)
        => result = Ok(Repeat(TIER_CRITICAL, 7) \o Repeat(BLANK, 1))

\* C8 amended: 155 of 170 hours on 8 cells (percentage about 0.9118, which is
\* not above 0.94) selects the orange tier, fills 7 cells, and renders 7 orange
\* cells followed by 1 blank.
C8_ScenarioIsHigh ==
    (Rendered /\ arg_current = Some(Hours(155)) /\ arg_max = Hours(170) /\ arg_length = 8)
        => result = Ok(<<TIER_HIGH, TIER_HIGH, TIER_HIGH, TIER_HIGH,
                         TIER_HIGH, TIER_HIGH, TIER_HIGH, BLANK>>)

\* The binary's create_meter has rendered 155 of 170 hours on 8 cells.
C8_Witness ==
    /\ Rendered
    /\ callee = "main.rs"
    /\ arg_current = Some(Hours(155))
    /\ arg_max = Hours(170)
    /\ arg_length = 8
    /\ result.kind = "Ok"
    /\ FilledCells(result.meter) = 7

\* C9: a measurement of zero renders all blank: for every maximum > 0 and every
\* length >= 1 the output is length blank cells and no filled cell.
C9_ZeroIsAllBlank ==
    (Rendered /\ arg_current = Some(0) /\ ValidConfiguration)
        => /\ result.kind = "Ok"
           /\ Len(result.meter) = arg_length
           /\ \A i \in 1..arg_length : result.meter[i] = BLANK

\* Zero hours rendered on a meter long enough for the rounding step to apply.
C9_Witness ==
    /\ Rendered
    /\ arg_current = Some(0)
    /\ arg_max = Hours(160)
    /\ arg_length = 20
    /\ result.kind = "Ok"
    /\ BlankCells(result.meter) = 20

-----------------------------------------------------------------------------
(* The claim about two measurements (specification SpecPair). *)

PairRendered == pair_result # << >>

\* whether create_meter's rounding step adds a cell for measurement c
ReceivesBonus(c) == RoundsUp(c, pair.length, FloorCells(c, pair.max, pair.length))

\* C7: for one maximum > 0 and one length >= 1, c1 <= c2 gives no more filled
\* cells for c1 than for c2, when both or neither measurement receives the
\* half-up bonus.
C7_FillIsMonotoneWithinBranch ==
    (PairRendered /\ pair.c1 <= pair.c2 /\ (ReceivesBonus(pair.c1) <=> ReceivesBonus(pair.c2)))
        => FilledCells(pair_result[1].meter) <= FilledCells(pair_result[2].meter)

\* Two measurements that both receive the bonus, the larger filling more cells.
C7_Witness ==
    /\ PairRendered
    /\ pair.c1 < pair.c2
    /\ ReceivesBonus(pair.c1)
    /\ ReceivesBonus(pair.c2)
    /\ FilledCells(pair_result[1].meter) < FilledCells(pair_result[2].meter)

\* Without the same-branch condition the fill is not monotone.
C7_FillIsMonotone ==
    (PairRendered /\ pair.c1 <= pair.c2)
        => FilledCells(pair_result[1].meter) <= FilledCells(pair_result[2].meter)

-----------------------------------------------------------------------------
(* The Builder (specification SpecBuilder). *)

\* build() returns Ok in every reachable state: current is Some from new() on.
BuildNeverFails == called = "build" => returned = "Ok"

\* The Builder never holds None as its measurement.
BuilderHasMeasurement == current # None

\* C11 as stated: in every reachable state of a Builder, the states between a
\* set_length call and the next build included, the cached meter has as many
\* cells as the configured length.
C11_MeterHasLengthCellsAlways == Len(meter) = length

\* C11 amended: right after new() and right after every build() the cached
\* meter has as many cells as the configured length; set_length changes the
\* length and leaves the cached meter alone, so until the next build() the two
\* may differ.
C11_MeterHasLengthCellsOnceBuilt ==
    called \in {"new", "build"} => Len(meter) = length

\* A Builder built after its length was set to 20.
C11_Witness ==
    /\ called = "build"
    /\ returned = "Ok"
    /\ length = 20
    /\ Len(meter) = 20
    /\ FilledCells(meter) > 0

\* C12: a new Builder has no measurement, so build() right after new(), with
\* set_current never called, finds current = None and fails with the
\* missing-measurement error.
C12_BuildOfNewBuilderFails ==
    [][(called = "new" /\ called' = "build")
          => (current = None /\ returned' = "Err")]_vars

\* What the code does instead: a new Builder holds Some(0), and build() right
\* after new() returns Ok with an all-blank meter.
C12_BuildOfNewBuilderIsBlank ==
    [][(called = "new" /\ called' = "build")
          => (current = Some(0) /\ returned' = "Ok" /\ meter' = Repeat(BLANK, length))]_vars

\* C16: a setter changes its own field and nothing else, the cached meter
\* included; build() changes the cached meter alone, and after a successful
\* build() the cached meter is the rendering of the current, max and length
\* the setters left, whichever calls came before.
C16_SettersChangeOwnFieldOnly ==
    [][/\ called' = "set_current" => (max' = max /\ length' = length /\ meter' = meter)
       /\ called' = "set_max" => (current' = current /\ length' = length /\ meter' = meter)
       /\ called' = "set_length" => (current' = current /\ max' = max /\ meter' = meter)
       /\ called' = "build" =>
             /\ current' = current /\ max' = max /\ length' = length
             /\ returned' = "Ok" => Ok(meter') = util_create_meter(current, max, length)]_vars

\* A successful build() of values three earlier setter calls left: 9.5 of 10
\* hours on 20 cells.
C16_Witness ==
    /\ called = "build"
    /\ returned = "Ok"
    /\ current = Some(Hours(9) + Unit \div 2)
    /\ max = Hours(10)
    /\ length = 20
    /\ Display = Repeat(TIER_CRITICAL, 19) \o Repeat(BLANK, 1)

-----------------------------------------------------------------------------
(* The claim about days_since_monday (specification SpecWindow). *)

\* the place of the weekday `offset` hours from the UTC time of the clock,
\* counted from Monday = 1
DayOfWeekAt(offset) ==
    LET hours == clock.hour + offset
        dayShift == IF hours < 0 THEN -1 ELSE IF hours >= 48 THEN 2
                    ELSE IF hours >= 24 THEN 1 ELSE 0
        day == clock.weekday + dayShift
    IN  IF day < 1 THEN day + 7 ELSE IF day > 7 THEN day - 7 ELSE day

-----------------------------------------------------------------------------
(* The claims about a run (specification SpecApp). *)

Submitted == \E i \in DOMAIN events : events[i] = "submit"
Failed == outcome \in {"err", "panic"}
FetchAnswered == fetched # << >>
NoMeasurementFetched == FetchAnswered /\ (fetched.kind = "Err" \/ fetched.hours = None)
UpdateUnconfirmed ==
    confirmed # << >> /\ confirmed.kind = "Ok" /\ confirmed.location = None

\* C14: a run fetches the hours, builds the meter and submits the profile
\* update in that order, and submits only what a fetched measurement built:
\* when the fetch fails or brings no measurement, or the build fails, the run
\* ends in a failure and no profile update is submitted.
C14_UpdateOnlyAfterMeasurement ==
    /\ Submitted => /\ events = <<"fetch", "build", "submit">>
                    /\ fetched.kind = "Ok"
                    /\ fetched.hours # None
    /\ (step = "done" /\ NoMeasurementFetched) => (Failed /\ ~Submitted)
    /\ (step = "done" /\ events = <<"fetch", "build">>) => Failed

\* What C14 states holds of App::run.
C14_HoldsOfAppRun ==
    program = "app.rs" => C14_UpdateOnlyAfterMeasurement

\* C15: when the profile update answers with no confirmed location, the run
\* ends in a failure, and prints none of the status lines.
C15_UnconfirmedUpdateFails ==
    (step = "done" /\ UpdateUnconfirmed) => (Failed /\ printed = << >>)

\* What C15 states holds of App::run.
C15_HoldsOfAppRun ==
    program = "app.rs" => C15_UnconfirmedUpdateFails

=============================================================================
